---------------------------- MODULE Spec2Model ----------------------------
(***************************************************************************)
(* Model of the quiz bot's buzzer engine (quizbot/services/game_service.py, *)
(* quizbot/services/game_state.py, quizbot/handlers/callbacks.py).          *)
(*                                                                         *)
(* The bot runs on one asyncio event loop.  Every callback handler is a    *)
(* coroutine that works in its own database session; it can be suspended   *)
(* only at an await that really waits, i.e. at a database round trip.      *)
(* The in-memory queue table State is shared by all handlers.  Taking a    *)
(* free asyncio.Lock does not suspend, and no critical section of the      *)
(* code awaits anything, so a critical section runs inside one step and    *)
(* the lock is free again when the step ends.                              *)
(*                                                                         *)
(* One action of the model is one such step of one handler: either the     *)
(* instant at which a database statement takes effect (together with the   *)
(* handler-local code that follows it), or the piece of code that touches  *)
(* State between two database statements.                                  *)
(*                                                                         *)
(* The database is the configured default, SQLite: a statement sees the    *)
(* committed rows and the rows written by its own session; the first       *)
(* INSERT/UPDATE of a session takes the single write lock, which is held   *)
(* until the session commits or is rolled back.                            *)
(*                                                                         *)
(* A team gets the next free id.  register_team creates one team with      *)
(* exactly one member; where the registrations do not overlap the players  *)
(* register in the order of their numbers, so the team of player p has the *)
(* id p.  Player rows carry display metadata only and are left out: every  *)
(* user is a known player.                                                 *)
(***************************************************************************)
EXTENDS Integers, Sequences, FiniteSets, TLC

\* ------------------------------------------------------------------ bounds
\* Handlers in flight at once, admin handlers among them, players,
\* mark-correct events, games: for the concurrent specification and for the
\* one-event-at-a-time specification.
MaxTasks == 2
MaxAdmins == 1
MaxPlayers == 2
MaxCorrect == 1
SeqPlayers == 3
SeqCorrect == 2
MaxGames == 1
\* The same for the specification of overlapping admin events on one game,
\* and the games of the specification of overlapping start-game events.
AdminPlayers == 1
AdminCorrect == 3
StartGames == 2
\* The players and mark-correct events of the specification with failing
\* database statements.
FailPlayers == 2
FailCorrect == 1
\* The players of the specification of overlapping registrations.
RegPlayers == 2
LivePlayers == 1
CmdPlayers == 2
PendUsers == 3
MaxCalls == 4

\* ------------------------------------------------------- program constants
\* settings.default_admin_ids: the allow-list holds one user id.
AdminId == 100
\* GameParticipant is created with score=0; award_score adds points=1.
InitialScore == 0
DefaultPoints == 1
\* The model's marks for "no row" and for Python's None.
NoRow == -1
None == 0

VARIABLES
    games,      \* table games: sequence of rows, the index is Game.id
    score,      \* table game_participants: score[g][team], NoRow if absent
    teams,      \* table teams: the ids of the committed rows
    team_name,  \* table teams: Team.name of each row
    team_members, \* table team_members: the rows <<team_id, player_id>>
    nrows,      \* table game_participants: nrows[g][team], the number of rows of the pair
    writer,     \* the task whose session holds the database write lock, or None
    State,      \* the dict game_state . STATE (a reserved word here): game id -> GameState
    tasks,      \* the handlers in flight: task -> its local variables
    cfg,        \* the bounds of the run: handlers in flight, games, players, mark-correct events
    nCorrect,   \* number of mark-correct events received so far
    round,      \* history of the current question of each game
    PENDING_REGISTRATION, \* the dict of registration_state: user id -> True
    calls       \* history: the calls of request_name and clear so far, <<name, user>>

vars == <<games, score, teams, team_name, team_members, nrows, writer, State, tasks, cfg,
         nCorrect, round, PENDING_REGISTRATION, calls>>

Players == 1..cfg.players
GameIds == 1..cfg.games
Tasks == 1..MaxTasks

\* ------------------------------------------------------------- game_state
\* GameState(): dataclass defaults.
GameState == [queue |-> <<>>, lock |-> FALSE]

\* get_state(game_id): creates the entry on first use.
get_state(S, g) == IF g \in DOMAIN S THEN S ELSE S @@ (g :> GameState)

\* async with state.lock: the lock of game g is taken on entry (it is free:
\* the callers check that), the body leaves the queue q, and the lock is
\* released on exit.
acquire(S, g) == [S EXCEPT ![g].lock = TRUE]

release_skip(S, g) == S

release(S, g) == [S EXCEPT ![g].lock = FALSE]

with_lock_suspended(S, g, q) == [acquire(S, g) EXCEPT ![g].queue = q]

with_lock(S, g, q) == release([acquire(S, g) EXCEPT ![g].queue = q], g)

\* reset_round(game_id): state.queue.clear() under the lock.
reset_round_keep(S, g) == get_state(S, g)

reset_round(S, g) == with_lock(get_state(S, g), g, <<>>)

\* list.index(x) + 1: the 1-based place of the first occurrence.
IndexOf(q, x) == CHOOSE i \in 1..Len(q) : q[i] = x /\ \A j \in 1..(i - 1) : q[j] # x

InQueue(q, x) == \E i \in 1..Len(q) : q[i] = x

\* ------------------------------------------------------------ game_service
\* get_active_game: the newest game whose status is not finished, or None.
ActiveIds(G) == {i \in DOMAIN G : G[i].status # "finished"}

get_active_game(G) ==
    IF ActiveIds(G) = {} THEN None
    ELSE CHOOSE i \in ActiveIds(G) : \A j \in ActiveIds(G) : j <= i

\* get_player_team: the team the player is a member of, or None.
get_player_team_any(M, p) == p

get_player_team(M, p) ==
    IF \E m \in M : m[2] = p THEN (CHOOSE m \in M : m[2] = p)[1] ELSE None

\* A team name is a sequence of characters.  The characters of the model are
\* the space, an ASCII letter in both cases ("A", "a") and a letter outside
\* ASCII in both cases ("YA" and "ya" stand for U+042F and U+044F).
\* str.strip(): the name without its leading and trailing white space.
RECURSIVE lstrip(_)
lstrip(n) == IF n # <<>> /\ Head(n) = " " THEN lstrip(Tail(n)) ELSE n

RECURSIVE rstrip(_)
rstrip(n) ==
    IF n # <<>> /\ n[Len(n)] = " " THEN rstrip(SubSeq(n, 1, Len(n) - 1)) ELSE n

strip(n) == rstrip(lstrip(n))

\* str.lower() of Python folds every cased letter.
py_lower(n) ==
    [i \in 1..Len(n) |-> CASE n[i] = "A" -> "a" [] n[i] = "YA" -> "ya" [] OTHER -> n[i]]

\* func.lower(Team.name) is computed by the database: lower() of SQLite folds
\* the ASCII letters only.
func_lower_py(n) == py_lower(n)

func_lower(n) == [i \in 1..Len(n) |-> IF n[i] = "A" THEN "a" ELSE n[i]]

\* register_team: the rows found by
\* select(Team).where(func.lower(Team.name) == normalized.lower()).
existing_name(T, N, normalized) ==
    {x \in T : func_lower(N[x]) = py_lower(normalized)}

\* team = Team(name=normalized); session.add(team); flush: always a new row,
\* whose id is the next free one; the membership is given team.id.
add_team_or_join(T, N, normalized) ==
    IF existing_name(T, N, normalized) # {}
    THEN CHOOSE x \in existing_name(T, N, normalized) : TRUE
    ELSE Cardinality(T) + 1

add_team(T, N, normalized) == Cardinality(T) + 1

\* uq_team_name: no other row of teams has exactly this name.
uq_team_name_off(T, N, name) == TRUE

uq_team_name(T, N, name) == \A x \in T : N[x] # name

\* uq_member_player: no other row of team_members has this player.
uq_member_player_off(M, p) == TRUE

uq_member_player(M, p) == \A m \in M : m[2] # p

\* uq_game_team: no row of game_participants has the game and one of the
\* teams of the rows to be inserted.
uq_game_team_off(rows, adds) == TRUE

uq_game_team(rows, adds) == \A x \in adds : rows[x] = NoRow

\* What a commit adds to the game_participants table: the rows the session
\* inserted for game g.
Inserted(n, g, adds) ==
    [n EXCEPT ![g] = [x \in DOMAIN @ |-> IF x \in adds THEN @[x] + 1 ELSE @[x]]]

\* The order of Team.name.asc(): the BINARY collation compares the UTF-8
\* bytes of the names.
Bytes(c) ==
    CASE c = " " -> 32 [] c = "A" -> 65 [] c = "a" -> 97
      [] c = "YA" -> 208 * 256 + 175 [] c = "ya" -> 209 * 256 + 143

RECURSIVE NameLess(_, _)
NameLess(a, b) ==
    IF b = <<>> THEN FALSE
    ELSE IF a = <<>> THEN TRUE
    ELSE IF Bytes(Head(a)) # Bytes(Head(b)) THEN Bytes(Head(a)) < Bytes(Head(b))
    ELSE NameLess(Tail(a), Tail(b))

\* ensure_participants: the teams that have no GameParticipant row yet.
ensure_participants_none(rows, T) == {}

ensure_participants(rows, T) == {x \in T : rows[x] = NoRow}

\* session.add(GameParticipant(game_id, team_id, score=0)) for each of them:
\* the rows of the game once the INSERTs are committed.
add_participants_reset(rows, adds) ==
    [x \in DOMAIN rows |-> IF x \in adds \/ rows[x] # NoRow THEN InitialScore ELSE rows[x]]

add_participants(rows, adds) ==
    [x \in DOMAIN rows |-> IF x \in adds THEN InitialScore ELSE rows[x]]

\* press_buzzer, first check: rejected unless the game is in status question.
NoActiveQuestionMutant(status) == FALSE

NoActiveQuestion(status) == status # "question"

\* press_buzzer, the critical section: the queue, the position and the
\* message kind it produces for a team.
press_critical_nocheck(q, team) ==
    [queue |-> Append(q, team), position |-> Len(q) + 1,
     msg |-> IF Len(q) + 1 = 1 THEN "first" ELSE "queued"]

press_critical_stale_len(q, team) ==
    IF InQueue(q, team)
    THEN [queue |-> q, position |-> IndexOf(q, team), msg |-> "already"]
    ELSE [queue |-> Append(q, team), position |-> Len(q),
          msg |-> IF Len(q) = 1 THEN "first" ELSE "queued"]

press_critical_prepend(q, team) ==
    IF InQueue(q, team)
    THEN [queue |-> q, position |-> IndexOf(q, team), msg |-> "already"]
    ELSE [queue |-> <<team>> \o q, position |-> Len(q) + 1,
          msg |-> IF Len(q) + 1 = 1 THEN "first" ELSE "queued"]

press_critical_relen(q, team) ==
    IF InQueue(q, team)
    THEN [queue |-> q, position |-> Len(q), msg |-> "already"]
    ELSE [queue |-> Append(q, team), position |-> Len(q) + 1,
          msg |-> IF Len(q) + 1 = 1 THEN "first" ELSE "queued"]

press_critical(q, team) ==
    IF InQueue(q, team)
    THEN [queue |-> q, position |-> IndexOf(q, team), msg |-> "already"]
    ELSE [queue |-> Append(q, team), position |-> Len(q) + 1,
          msg |-> IF Len(q) + 1 = 1 THEN "first" ELSE "queued"]

\* pop_queue: the removed head (None on an empty queue) and the rest.
pop_queue_last(q) ==
    IF q # <<>> THEN [removed |-> q[Len(q)], queue |-> SubSeq(q, 1, Len(q) - 1)]
    ELSE [removed |-> None, queue |-> q]

pop_queue_peek(q) ==
    IF q # <<>> THEN [removed |-> Head(q), queue |-> q]
    ELSE [removed |-> None, queue |-> q]

pop_queue_requeue(q) ==
    IF q # <<>> THEN [removed |-> Head(q), queue |-> Append(Tail(q), Head(q))]
    ELSE [removed |-> None, queue |-> q]

pop_queue_skip(q) ==
    IF Len(q) >= 2 THEN [removed |-> Head(q), queue |-> <<Head(q)>> \o Tail(Tail(q))]
    ELSE IF q # <<>> THEN [removed |-> Head(q), queue |-> Tail(q)]
    ELSE [removed |-> None, queue |-> q]

pop_queue(q) ==
    IF q # <<>> THEN [removed |-> Head(q), queue |-> Tail(q)]
    ELSE [removed |-> None, queue |-> q]

\* current_queue: a copy of the queue.
current_queue(S, g) == get_state(S, g)[g].queue

\* award_score: the new score of a participant row (created with 0 if absent).
award_score_overwrite(old, points) == points

award_score_skipnew(old, points) == IF old = NoRow THEN InitialScore ELSE old + points

award_score(old, points) == (IF old = NoRow THEN InitialScore ELSE old) + points

\* get_scores: the (team name, score) pairs of the rows of a game joined to
\* their teams, ORDER BY score DESC, name ASC.  rows is score[g].
ScoresBefore_asc(rows, N, x, y) ==
    \/ rows[x] < rows[y]
    \/ rows[x] = rows[y] /\ NameLess(N[x], N[y])

ScoresBefore(rows, N, x, y) ==
    \/ rows[x] > rows[y]
    \/ rows[x] = rows[y] /\ NameLess(N[x], N[y])

get_scores(rows, T, N) ==
    LET P == {x \in T : x \in DOMAIN rows /\ rows[x] # NoRow}
        place(x) == 1 + Cardinality({y \in P : ScoresBefore(rows, N, y, x)})
    IN [i \in 1..Cardinality(P) |->
           LET x == CHOOSE z \in P : place(z) = i IN <<N[x], rows[x]>>]

\* on_player_buzzer: the condition under which the admin and the team are
\* told that the team is first.
FirstEvent(position, team) == position = 1 /\ team # None

\* on_admin_wrong: the team announced to the admin as the next to answer.
next_team_id(queue_after) == queue_after[1]

\* ------------------------------------------------------------------ tasks
\* The local variables of a handler.  status is the status the handler loaded
\* with its game object; dirty holds the changed columns of that object.
Idle ==
    [kind |-> "idle", pc |-> "idle", user |-> None, arg |-> None,
     game |-> None, status |-> "none", dirty |-> {},
     team |-> None, adds |-> {}, pscore |-> NoRow,
     position |-> None, msg |-> "none", removed |-> None, after |-> <<>>,
     scores |-> <<>>, older |-> {}, overtaken |-> {}, before |-> None]

\* What a handler finds when it starts: kept in the runs in which a database
\* statement may fail, to compare with what a failed handler leaves behind.
Snapshot ==
    IF cfg.fail THEN [State |-> State, games |-> games, score |-> score] ELSE None

InFlight == {t \in Tasks : tasks[t].kind # "idle"}

\* A new handler takes the lowest free slot.
FreeSlot(t) ==
    /\ tasks[t].kind = "idle"
    /\ \A u \in Tasks : u < t => tasks[u].kind # "idle"
    /\ Cardinality(InFlight) < cfg.tasks

\* A new handler of an admin event.
AdminSlot(t) ==
    /\ FreeSlot(t)
    /\ Cardinality({u \in Tasks : tasks[u].kind \notin {"idle", "press"}}) < cfg.admins

\* Press handlers that have not reached the critical section yet.
Waiting == {u \in Tasks : tasks[u].kind = "press" /\
                          tasks[u].pc \in {"get_game", "ensure", "enqueue"}}

\* History of a question: the positions given, whether a team was popped, and
\* the teams given a point since the question was started.
NoRound == [given |-> <<>>, popped |-> FALSE, awarded |-> {}]

\* The handler of task t is over: its slot is free again.
Finished(t) ==
    [u \in Tasks |-> IF u = t THEN Idle
                     ELSE [tasks[u] EXCEPT !.older = @ \ {t}]]

\* The handler of task t has committed and is about to answer: what it still
\* holds is its game, the status it had loaded, and its result.
Answer(t, msg) ==
    [Idle EXCEPT !.kind = tasks[t].kind, !.pc = "reply", !.user = tasks[t].user,
                 !.arg = tasks[t].arg, !.game = tasks[t].game,
                 !.status = tasks[t].status, !.team = tasks[t].team,
                 !.position = tasks[t].position, !.removed = tasks[t].removed,
                 !.after = tasks[t].after, !.overtaken = tasks[t].overtaken,
                 !.msg = msg]

TypeOK ==
    /\ writer \in Tasks \cup {None}
    /\ teams \subseteq Players
    /\ Len(games) <= cfg.games
    /\ DOMAIN State \subseteq GameIds
    /\ nCorrect \in 0..cfg.correct
    /\ \A t \in Tasks : tasks[t].game \in GameIds \cup {None}

Start(c) ==
    /\ cfg = c
    /\ games = <<>>
    /\ score = [g \in 1..c.games |-> [x \in 1..c.players |-> NoRow]]
    /\ teams = {}
    /\ team_name = <<>>
    /\ team_members = {}
    /\ nrows = [g \in 1..c.games |-> [x \in 1..c.players |-> 0]]
    /\ writer = None
    /\ State = <<>>
    /\ tasks = [t \in Tasks |-> Idle]
    /\ nCorrect = 0
    /\ round = [g \in 1..c.games |-> NoRound]
    /\ PENDING_REGISTRATION = <<>>
    /\ calls = <<>>

\* The empty database and the empty queue table; handlers run concurrently.
Init == Start([tasks |-> MaxTasks, admins |-> MaxAdmins, games |-> MaxGames, players |-> MaxPlayers, correct |-> MaxCorrect, fail |-> FALSE])

\* The same, with one handler at a time: every event is processed to its end
\* before the next one is received.
SeqInit == Start([tasks |-> 1, admins |-> 1, games |-> MaxGames, players |-> SeqPlayers, correct |-> SeqCorrect, fail |-> FALSE])

\* One handler at a time, in a run in which database statements may fail.
FailInit == Start([tasks |-> 1, admins |-> 1, games |-> MaxGames, players |-> FailPlayers, correct |-> FailCorrect, fail |-> TRUE])

\* Two calls of register_team at a time.
RegInit == Start([tasks |-> MaxTasks, admins |-> MaxAdmins, games |-> MaxGames, players |-> RegPlayers, correct |-> MaxCorrect, fail |-> FALSE])

\* No game: the users press the registration button.
PendInit == Start([tasks |-> 1, admins |-> 1, games |-> MaxGames, players |-> PendUsers, correct |-> MaxCorrect, fail |-> FALSE])

\* One handler at a time, in the runs with the /finish_game command.
CmdInit == Start([tasks |-> 1, admins |-> 1, games |-> MaxGames, players |-> CmdPlayers, correct |-> MaxCorrect, fail |-> FALSE])

\* Two handlers at a time, in the runs in which progress is examined.
LiveInit == Start([tasks |-> MaxTasks, admins |-> MaxAdmins, games |-> MaxGames, players |-> LivePlayers, correct |-> MaxCorrect, fail |-> FALSE])

\* Two handlers at a time, both of them handlers of admin events.
AdminInit == Start([tasks |-> MaxTasks, admins |-> MaxTasks, games |-> MaxGames, players |-> AdminPlayers, correct |-> AdminCorrect, fail |-> FALSE])

\* The same, with room for a second game.
StartInit == Start([tasks |-> MaxTasks, admins |-> MaxTasks, games |-> StartGames, players |-> AdminPlayers, correct |-> AdminCorrect, fail |-> FALSE])

\* ----------------------------------------------------------- registration
\* The name under which player p registers a team in the runs in which the
\* registrations do not overlap: "ya", "a", "Aya", "yaa", "aa", "Ayaa", ...
\* The names are distinct in any case, and the ids do not follow their order.
TeamName(p) ==
    (CASE p % 3 = 1 -> <<"ya">> [] p % 3 = 2 -> <<"a">> [] OTHER -> <<"A", "ya">>)
        \o [i \in 1..((p - 1) \div 3) |-> "a"]

\* register_team for a player without a team, in one committed transaction.
\* Players are interchangeable: they register in the order of their numbers,
\* so the team of player p gets the id p.
register_team(p) ==
    /\ get_player_team(team_members, p) = None
    /\ \A q \in Players : q < p => get_player_team(team_members, q) # None
    /\ writer = None
    /\ LET normalized == strip(TeamName(p))
           id == add_team(teams, team_name, normalized)
       IN /\ normalized # <<>>
          /\ existing_name(teams, team_name, normalized) = {}
          /\ uq_team_name(teams, team_name, normalized)
          /\ uq_member_player(team_members, p)
          /\ teams' = teams \cup {id}
          /\ team_name' = team_name @@ (id :> normalized)
          /\ team_members' = team_members \cup {<<id, p>>}
    /\ UNCHANGED <<nrows, games, score, writer, State, tasks, PENDING_REGISTRATION, calls, cfg, nCorrect, round>>

\* register_team called in a session of its own, step by step.  The names the
\* players send: blank, "a", "A", "a " and the same letter outside ASCII.
RegNames == {<<" ">>, <<"a">>, <<"A">>, <<"a", " ">>, <<"ya">>, <<"YA">>}

on_register(t, p, name) ==
    /\ FreeSlot(t)
    /\ tasks' = [tasks EXCEPT ![t] =
                    [Idle EXCEPT !.kind = "register", !.pc = "get_team",
                                 !.user = p, !.arg = name]]
    /\ UNCHANGED <<team_members, team_name, nrows, games, score, teams, writer, State, PENDING_REGISTRATION, calls, cfg, nCorrect, round>>

\* get_player_team and the check of the membership; the name is stripped and
\* must not be empty.
register_get_team(t) ==
    /\ tasks[t].kind = "register" /\ tasks[t].pc = "get_team"
    /\ tasks' = [tasks EXCEPT ![t] =
          IF get_player_team(team_members, tasks[t].user) # None
          THEN Answer(t, "already_on_team")
          ELSE IF strip(tasks[t].arg) = <<>>
          THEN Answer(t, "invalid_name")
          ELSE [@ EXCEPT !.pc = "check_name"]]
    /\ UNCHANGED <<team_members, team_name, nrows, games, score, teams, writer, State, PENDING_REGISTRATION, calls, cfg, nCorrect, round>>

\* The SELECT of a team of the same name, compared in lower case.
register_check_name(t) ==
    /\ tasks[t].kind = "register" /\ tasks[t].pc = "check_name"
    /\ tasks' = [tasks EXCEPT ![t] =
          IF existing_name(teams, team_name, strip(tasks[t].arg)) # {}
          THEN Answer(t, "duplicate_name")
          ELSE [@ EXCEPT !.pc = "insert"]]
    /\ UNCHANGED <<team_members, team_name, nrows, games, score, teams, writer, State, PENDING_REGISTRATION, calls, cfg, nCorrect, round>>

\* The INSERT of the Team takes the write lock; then the INSERT of the
\* TeamMember.
register_insert(t) ==
    /\ tasks[t].kind = "register" /\ tasks[t].pc = "insert"
    /\ writer = None
    /\ uq_team_name(teams, team_name, strip(tasks[t].arg))
    /\ uq_member_player(team_members, tasks[t].user)
    /\ writer' = t
    /\ tasks' = [tasks EXCEPT ![t] =
          [@ EXCEPT !.pc = "commit",
                    !.team = add_team(teams, team_name, strip(tasks[t].arg))]]
    /\ UNCHANGED <<team_members, team_name, nrows, games, score, teams, State, PENDING_REGISTRATION, calls, cfg, nCorrect, round>>

\* One of the two flushes fails on uq_team_name or uq_member_player: the
\* exception ends the call and the session is rolled back.
register_integrity_error(t) ==
    /\ tasks[t].kind = "register" /\ tasks[t].pc = "insert"
    /\ writer = None
    /\ \/ ~uq_team_name(teams, team_name, strip(tasks[t].arg))
       \/ ~uq_member_player(team_members, tasks[t].user)
    /\ tasks' = Finished(t)
    /\ UNCHANGED <<team_members, team_name, nrows, games, score, teams, writer, State, PENDING_REGISTRATION, calls, cfg, nCorrect, round>>

\* The caller commits the session.
register_commit(t) ==
    /\ tasks[t].kind = "register" /\ tasks[t].pc = "commit"
    /\ teams' = teams \cup {tasks[t].team}
    /\ team_name' = (tasks[t].team :> strip(tasks[t].arg)) @@ team_name
    /\ team_members' = team_members \cup {<<tasks[t].team, tasks[t].user>>}
    /\ writer' = None
    /\ tasks' = [tasks EXCEPT ![t] = Answer(t, "registered")]
    /\ UNCHANGED <<nrows, games, score, State, PENDING_REGISTRATION, calls, cfg, nCorrect, round>>

\* --------------------------------------------------------- on_player_buzzer
\* A press event arrives: the handler starts.
on_player_buzzer(t, p) ==
    /\ FreeSlot(t)
    /\ tasks' = [tasks EXCEPT ![t] =
                    [Idle EXCEPT !.kind = "press", !.pc = "get_game",
                                 !.user = p, !.older = Waiting,
                                 !.before = Snapshot]]
    /\ UNCHANGED <<team_members, team_name, nrows, games, score, teams, writer, State, PENDING_REGISTRATION, calls, cfg, nCorrect, round>>

\* get_active_game, get_or_create_player, and the status check of press_buzzer.
buzzer_get_game(t) ==
    /\ tasks[t].kind = "press" /\ tasks[t].pc = "get_game"
    /\ LET g == get_active_game(games) IN
       tasks' = [tasks EXCEPT ![t] =
          IF g = None
          THEN [Answer(t, "no_game") EXCEPT !.position = None, !.team = None,
                                          !.overtaken = {}]
          ELSE IF NoActiveQuestion(games[g].status)
          THEN [Answer(t, "no_question") EXCEPT
                    !.game = g, !.status = games[g].status,
                    !.position = None, !.team = None, !.overtaken = {}]
          ELSE [@ EXCEPT !.pc = "ensure", !.game = g, !.status = games[g].status]]
    /\ UNCHANGED <<team_members, team_name, nrows, games, score, teams, writer, State, PENDING_REGISTRATION, calls, cfg, nCorrect, round>>

\* get_player_team, then the SELECTs of ensure_participants and the rows it
\* adds to the session.  (A team, once registered, stays: the three SELECTs
\* give what they would give at the instant of the last one.)
buzzer_ensure(t) ==
    /\ tasks[t].kind = "press" /\ tasks[t].pc = "ensure"
    /\ LET team == get_player_team(team_members, tasks[t].user) IN
       tasks' = [tasks EXCEPT ![t] =
          IF team = None
          THEN [Answer(t, "no_team") EXCEPT !.position = None, !.team = None,
                                          !.overtaken = {}]
          ELSE [@ EXCEPT !.pc = "enqueue", !.team = team,
                         !.adds = ensure_participants(score[tasks[t].game], teams)]]
    /\ UNCHANGED <<team_members, team_name, nrows, games, score, teams, writer, State, PENDING_REGISTRATION, calls, cfg, nCorrect, round>>

\* The flush of ensure_participants fails: a row of the same (game, team) pair
\* was committed meanwhile (uq_game_team).  The exception ends the handler and
\* the session is rolled back.
buzzer_integrity_error(t) ==
    /\ tasks[t].kind = "press" /\ tasks[t].pc = "enqueue"
    /\ tasks[t].adds # {}
    /\ writer = None
    /\ ~uq_game_team(score[tasks[t].game], tasks[t].adds)
    /\ tasks' = Finished(t)
    /\ UNCHANGED <<team_members, team_name, nrows, games, score, teams, writer, State, PENDING_REGISTRATION, calls, cfg, nCorrect, round>>

\* The flush of ensure_participants, then the critical section of press_buzzer.
buzzer_enqueue(t) ==
    /\ tasks[t].kind = "press" /\ tasks[t].pc = "enqueue"
    /\ tasks[t].adds # {} => /\ writer = None
                             /\ uq_game_team(score[tasks[t].game], tasks[t].adds)
    /\ LET g == tasks[t].game
           S == get_state(State, g)
           r == press_critical(S[g].queue, tasks[t].team)
           new == r.msg # "already"
       IN
       /\ ~S[g].lock
       /\ State' = with_lock(S, g, r.queue)
       /\ round' = IF new /\ ~round[g].popped
                   THEN [round EXCEPT ![g].given =
                            Append(@, <<tasks[t].team, r.position>>)]
                   ELSE round
       /\ tasks' = [u \in Tasks |->
            IF u = t
            THEN [tasks[t] EXCEPT !.pc = "commit", !.position = r.position,
                                  !.msg = r.msg, !.older = {},
                                  !.overtaken =
                                      IF new THEN {x \in @ : InQueue(S[g].queue, x)}
                                      ELSE {}]
            ELSE IF new /\ u \in tasks[t].older /\ u \in Waiting
                        /\ tasks[u].game \in {None, g}
            THEN [tasks[u] EXCEPT !.overtaken = @ \cup {tasks[t].team}]
            ELSE tasks[u]]
    /\ writer' = IF tasks[t].adds # {} THEN t ELSE writer
    /\ UNCHANGED <<team_members, team_name, nrows, games, score, teams, PENDING_REGISTRATION, calls, cfg, nCorrect>>

\* session.commit() of on_player_buzzer.
buzzer_commit(t) ==
    /\ tasks[t].kind = "press" /\ tasks[t].pc = "commit"
    /\ score' = [score EXCEPT ![tasks[t].game] = add_participants(@, tasks[t].adds)]
    /\ nrows' = Inserted(nrows, tasks[t].game, tasks[t].adds)
    /\ writer' = IF writer = t THEN None ELSE writer
    /\ tasks' = [tasks EXCEPT ![t] = Answer(t, tasks[t].msg)]
    /\ UNCHANGED <<team_members, team_name, games, teams, State, PENDING_REGISTRATION, calls, cfg, nCorrect, round>>

\* callback.answer and the notifications: the handler ends.
reply(t) ==
    /\ tasks[t].pc = "reply"
    /\ tasks' = Finished(t)
    /\ UNCHANGED <<team_members, team_name, nrows, games, score, teams, writer, State, PENDING_REGISTRATION, calls, cfg, nCorrect, round>>

\* ------------------------------------------------------------ admin events
\* settings.default_admin_ids and callbacks._is_admin.
default_admin_ids == {AdminId}

_is_admin_all(u) == TRUE

_is_admin(u) == u \in default_admin_ids

\* The users who send admin events: the admin, and one player who is not one.
Outsider == CHOOSE p \in Players : \A q \in Players : p <= q

Senders == default_admin_ids \cup {Outsider}

\* An admin callback arrives; a sender outside the allow-list is turned away.
AdminTask(kind, u, arg) ==
    IF _is_admin(u)
    THEN [Idle EXCEPT !.kind = kind, !.pc = "get_game", !.user = u, !.arg = arg,
                      !.before = Snapshot]
    ELSE [Idle EXCEPT !.kind = kind, !.pc = "reply", !.user = u,
                      !.msg = "not_authorized"]

\* The status each handler gives its game: start_game, start_question,
\* finish_game, and finish_question in on_admin_correct and on_admin_wrong.
NewStatus_correct_open(kind) ==
    CASE kind = "start_game" -> "running"
      [] kind = "start_question" -> "question"
      [] kind = "finish_game" -> "finished"
      [] kind = "correct" -> "question"
      [] kind = "wrong" -> "running"

NewStatus(kind) ==
    CASE kind = "start_game" -> "running"
      [] kind = "start_question" -> "question"
      [] kind = "finish_game" -> "finished"
      [] kind = "correct" -> "running"
      [] kind = "wrong" -> "running"

\* The columns a handler changes when it sets the status of the game object
\* it loaded (the unit of work writes a column only if its value changed).
Changed(old, new) == IF old # new THEN {"status"} ELSE {}

\* What a commit writes to the games table: a new row, or the changed columns
\* of the loaded one.
WriteGame(G, t) ==
    IF "insert" \in tasks[t].dirty
    THEN Append(G, [status |-> NewStatus(tasks[t].kind), owner |-> tasks[t].user,
                    finished_at |-> FALSE])
    ELSE IF tasks[t].dirty = {} THEN G
    ELSE [G EXCEPT ![tasks[t].game] =
            [status |-> IF "status" \in tasks[t].dirty
                        THEN NewStatus(tasks[t].kind) ELSE @.status,
             owner |-> IF "owner" \in tasks[t].dirty THEN tasks[t].user
                       ELSE @.owner,
             finished_at |-> IF "finished_at" \in tasks[t].dirty
                             THEN tasks[t].kind = "finish_game"
                             ELSE @.finished_at]]

\* The step of a handler that clears the queue of game g (reset_round) and
\* leaves the handler's locals as rec.
ResetStep(t, g, rec) ==
    /\ ~get_state(State, g)[g].lock
    /\ State' = reset_round(State, g)
    /\ round' = [round EXCEPT ![g] =
                    [NoRound EXCEPT !.awarded = IF tasks[t].kind = "start_question"
                                                THEN {} ELSE round[g].awarded]]
    /\ tasks' = [u \in Tasks |-> IF u = t THEN rec
                                 ELSE [tasks[u] EXCEPT !.overtaken = {}]]

\* The step of a handler that pops the queue of game g (pop_queue); rec is the
\* handler's locals after it, r the result of the pop.
PopStep(t, g, r, rec) ==
    /\ ~get_state(State, g)[g].lock
    /\ State' = with_lock(get_state(State, g), g, r.queue)
    /\ tasks' = [u \in Tasks |-> IF u = t THEN rec
                                 ELSE [tasks[u] EXCEPT !.overtaken = @ \ {r.removed}]]
    /\ round' = IF r.removed = None THEN round
                ELSE [round EXCEPT ![g].popped = TRUE]

\* -------------------------------------------------------- on_admin_start_game
on_admin_start_game(t, u) ==
    /\ AdminSlot(t)
    /\ \/ get_active_game(games) # None
       \/ Len(games) + Cardinality({x \in Tasks : tasks[x].kind = "start_game"}) < cfg.games
    /\ tasks' = [tasks EXCEPT ![t] = AdminTask("start_game", u, None)]
    /\ UNCHANGED <<team_members, team_name, nrows, games, score, teams, writer, State, PENDING_REGISTRATION, calls, cfg, nCorrect, round>>

\* get_active_game; then create_game adds a Game, or the owner is set and
\* start_game sets status = running, finished_at = None.
start_game_get_game(t) ==
    /\ tasks[t].kind = "start_game" /\ tasks[t].pc = "get_game"
    /\ LET g == get_active_game(games) IN
       tasks' = [tasks EXCEPT ![t] =
          IF g = None
          THEN [@ EXCEPT !.pc = "create", !.status = "idle", !.dirty = {"insert"}]
          ELSE [@ EXCEPT !.pc = "ensure", !.game = g, !.status = games[g].status,
                         !.dirty = Changed(games[g].status, "running") \cup
                                   (IF games[g].owner # tasks[t].user
                                    THEN {"owner"} ELSE {}) \cup
                                   (IF games[g].finished_at
                                    THEN {"finished_at"} ELSE {})]]
    /\ UNCHANGED <<team_members, team_name, nrows, games, score, teams, writer, State, PENDING_REGISTRATION, calls, cfg, nCorrect, round>>

\* create_game: the INSERT takes the write lock and gives the row its id;
\* start_game sets status = running; ensure_participants reads.
create_game(t) ==
    /\ tasks[t].kind = "start_game" /\ tasks[t].pc = "create"
    /\ Len(games) < cfg.games
    /\ writer = None
    /\ writer' = t
    /\ LET g == Len(games) + 1 IN
       tasks' = [tasks EXCEPT ![t] =
          [@ EXCEPT !.pc = "flush", !.game = g,
                    !.adds = ensure_participants(score[g], teams)]]
    /\ UNCHANGED <<team_members, team_name, nrows, games, score, teams, State, PENDING_REGISTRATION, calls, cfg, nCorrect, round>>

\* start_game on an existing game: the autoflush of the changed game row (it
\* takes the write lock), then the SELECTs of ensure_participants.
start_game_ensure(t) ==
    /\ tasks[t].kind = "start_game" /\ tasks[t].pc = "ensure"
    /\ tasks[t].dirty # {} => writer = None
    /\ writer' = IF tasks[t].dirty # {} THEN t ELSE writer
    /\ tasks' = [tasks EXCEPT ![t] =
          [@ EXCEPT !.pc = "flush",
                    !.adds = ensure_participants(score[tasks[t].game], teams)]]
    /\ UNCHANGED <<team_members, team_name, nrows, games, score, teams, State, PENDING_REGISTRATION, calls, cfg, nCorrect, round>>

\* The flush of ensure_participants fails on uq_game_team: the handler ends
\* with the exception and its session is rolled back.
start_game_integrity_error(t) ==
    /\ tasks[t].kind = "start_game" /\ tasks[t].pc = "flush"
    /\ tasks[t].adds # {}
    /\ writer = None
    /\ ~uq_game_team(score[tasks[t].game], tasks[t].adds)
    /\ tasks' = Finished(t)
    /\ UNCHANGED <<team_members, team_name, nrows, games, score, teams, writer, State, PENDING_REGISTRATION, calls, cfg, nCorrect, round>>

\* The flush of ensure_participants, then reset_round at the end of start_game.
start_game_flush(t) ==
    /\ tasks[t].kind = "start_game" /\ tasks[t].pc = "flush"
    /\ (tasks[t].adds # {} /\ writer # t) =>
            /\ writer = None
            /\ uq_game_team(score[tasks[t].game], tasks[t].adds)
    /\ writer' = IF tasks[t].adds # {} THEN t ELSE writer
    /\ ResetStep(t, tasks[t].game, [tasks[t] EXCEPT !.pc = "commit"])
    /\ UNCHANGED <<team_members, team_name, nrows, games, score, teams, PENDING_REGISTRATION, calls, cfg, nCorrect>>

\* session.commit() of on_admin_start_game.
start_game_commit(t) ==
    /\ tasks[t].kind = "start_game" /\ tasks[t].pc = "commit"
    /\ games' = WriteGame(games, t)
    /\ score' = [score EXCEPT ![tasks[t].game] = add_participants(@, tasks[t].adds)]
    /\ nrows' = Inserted(nrows, tasks[t].game, tasks[t].adds)
    /\ writer' = IF writer = t THEN None ELSE writer
    /\ tasks' = [tasks EXCEPT ![t] = Answer(t, "started")]
    /\ UNCHANGED <<team_members, team_name, teams, State, PENDING_REGISTRATION, calls, cfg, nCorrect, round>>

\* ---------------------------------------------------- on_admin_start_question
on_admin_start_question(t, u) ==
    /\ AdminSlot(t)
    /\ tasks' = [tasks EXCEPT ![t] = AdminTask("start_question", u, None)]
    /\ UNCHANGED <<team_members, team_name, nrows, games, score, teams, writer, State, PENDING_REGISTRATION, calls, cfg, nCorrect, round>>

\* get_active_game and the check "not game or game.status == finished".
start_question_get_game(t) ==
    /\ tasks[t].kind = "start_question" /\ tasks[t].pc = "get_game"
    /\ LET g == get_active_game(games) IN
       tasks' = [tasks EXCEPT ![t] =
          IF g = None \/ games[g].status = "finished"
          THEN Answer(t, "no_game")
          ELSE [@ EXCEPT !.pc = "reset", !.game = g, !.status = games[g].status,
                         !.dirty = Changed(games[g].status, "question")]]
    /\ UNCHANGED <<team_members, team_name, nrows, games, score, teams, writer, State, PENDING_REGISTRATION, calls, cfg, nCorrect, round>>

\* start_question: game.status = question, then reset_round.
start_question(t) ==
    /\ tasks[t].kind = "start_question" /\ tasks[t].pc = "reset"
    /\ ResetStep(t, tasks[t].game, [tasks[t] EXCEPT !.pc = "commit"])
    /\ UNCHANGED <<team_members, team_name, nrows, games, score, teams, writer, PENDING_REGISTRATION, calls, cfg, nCorrect>>

\* The flush of start_question, the reads of the players, session.commit().
start_question_commit(t) ==
    /\ tasks[t].kind = "start_question" /\ tasks[t].pc = "commit"
    /\ tasks[t].dirty # {} => writer = None
    /\ games' = WriteGame(games, t)
    /\ tasks' = [tasks EXCEPT ![t] = Answer(t, "question_started")]
    /\ UNCHANGED <<team_members, team_name, nrows, score, teams, writer, State, PENDING_REGISTRATION, calls, cfg, nCorrect, round>>

\* ------------------------------------------------------- on_admin_finish_game
on_admin_finish_game(t, u) ==
    /\ AdminSlot(t)
    /\ tasks' = [tasks EXCEPT ![t] = AdminTask("finish_game", u, None)]
    /\ UNCHANGED <<team_members, team_name, nrows, games, score, teams, writer, State, PENDING_REGISTRATION, calls, cfg, nCorrect, round>>

finish_game_get_game(t) ==
    /\ tasks[t].kind = "finish_game" /\ tasks[t].pc = "get_game"
    /\ LET g == get_active_game(games) IN
       tasks' = [tasks EXCEPT ![t] =
          IF g = None
          THEN Answer(t, "no_game")
          ELSE [@ EXCEPT !.pc = "reset", !.game = g, !.status = games[g].status,
                         !.dirty = Changed(games[g].status, "finished")
                                   \cup {"finished_at"}]]
    /\ UNCHANGED <<team_members, team_name, nrows, games, score, teams, writer, State, PENDING_REGISTRATION, calls, cfg, nCorrect, round>>

\* finish_game: status = finished, finished_at = now, then reset_round.
finish_game(t) ==
    /\ tasks[t].kind = "finish_game" /\ tasks[t].pc = "reset"
    /\ ResetStep(t, tasks[t].game, [tasks[t] EXCEPT !.pc = "commit"])
    /\ UNCHANGED <<team_members, team_name, nrows, games, score, teams, writer, PENDING_REGISTRATION, calls, cfg, nCorrect>>

\* The flush of finish_game, get_scores, get_all_players, session.commit().
finish_game_commit(t) ==
    /\ tasks[t].kind = "finish_game" /\ tasks[t].pc = "commit"
    /\ tasks[t].dirty # {} => writer = None
    /\ games' = WriteGame(games, t)
    /\ tasks' = [tasks EXCEPT ![t] =
          [Answer(t, "finished") EXCEPT
              !.scores = get_scores(score[tasks[t].game], teams, team_name)]]
    /\ UNCHANGED <<team_members, team_name, nrows, score, teams, writer, State, PENDING_REGISTRATION, calls, cfg, nCorrect, round>>

\* ------------------------------------------------------ on_admin_show_scores
on_admin_show_scores(t, u) ==
    /\ AdminSlot(t)
    /\ tasks' = [tasks EXCEPT ![t] = AdminTask("show_scores", u, None)]
    /\ UNCHANGED <<team_members, team_name, nrows, games, score, teams, writer, State, PENDING_REGISTRATION, calls, cfg, nCorrect, round>>

show_scores_get_game(t) ==
    /\ tasks[t].kind = "show_scores" /\ tasks[t].pc = "get_game"
    /\ LET g == get_active_game(games) IN
       tasks' = [tasks EXCEPT ![t] =
          IF g = None
          THEN Answer(t, "no_game")
          ELSE [@ EXCEPT !.pc = "scores", !.game = g, !.status = games[g].status]]
    /\ UNCHANGED <<team_members, team_name, nrows, games, score, teams, writer, State, PENDING_REGISTRATION, calls, cfg, nCorrect, round>>

\* get_scores(session, game); the session is closed without a commit.
show_scores(t) ==
    /\ tasks[t].kind = "show_scores" /\ tasks[t].pc = "scores"
    /\ tasks' = [tasks EXCEPT ![t] =
          [Answer(t, "scores_shown") EXCEPT
              !.scores = get_scores(score[tasks[t].game], teams, team_name)]]
    /\ UNCHANGED <<team_members, team_name, nrows, games, score, teams, writer, State, PENDING_REGISTRATION, calls, cfg, nCorrect, round>>

\* ----------------------------------------------------------- on_admin_correct
\* The callback data carries the id of the team to be credited.
on_admin_correct(t, u, team) ==
    /\ AdminSlot(t)
    /\ nCorrect < cfg.correct
    /\ team \in teams
    /\ nCorrect' = nCorrect + 1
    /\ tasks' = [tasks EXCEPT ![t] = AdminTask("correct", u, team)]
    /\ UNCHANGED <<team_members, team_name, nrows, games, score, teams, writer, State, PENDING_REGISTRATION, calls, cfg, round>>

\* get_active_game; the handler does not look at the status of the game.
correct_get_game(t) ==
    /\ tasks[t].kind = "correct" /\ tasks[t].pc = "get_game"
    /\ LET g == get_active_game(games) IN
       tasks' = [tasks EXCEPT ![t] =
          IF g = None
          THEN Answer(t, "no_game")
          ELSE [@ EXCEPT !.pc = "pop", !.game = g, !.status = games[g].status,
                         !.dirty = Changed(games[g].status, "running")]]
    /\ UNCHANGED <<team_members, team_name, nrows, games, score, teams, writer, State, PENDING_REGISTRATION, calls, cfg, nCorrect, round>>

\* pop_queue(game).
correct_pop(t) ==
    /\ tasks[t].kind = "correct" /\ tasks[t].pc = "pop"
    /\ LET g == tasks[t].game
           r == pop_queue(get_state(State, g)[g].queue)
       IN PopStep(t, g, r, [tasks[t] EXCEPT !.pc = "select", !.removed = r.removed,
                                            !.after = r.queue])
    /\ UNCHANGED <<team_members, team_name, nrows, games, score, teams, writer, PENDING_REGISTRATION, calls, cfg, nCorrect>>

\* award_score: the SELECT of the participant row of (game, team_id).
correct_select(t) ==
    /\ tasks[t].kind = "correct" /\ tasks[t].pc = "select"
    /\ tasks' = [tasks EXCEPT ![t] =
          [@ EXCEPT !.pc = "award", !.pscore = score[tasks[t].game][tasks[t].arg]]]
    /\ UNCHANGED <<team_members, team_name, nrows, games, score, teams, writer, State, PENDING_REGISTRATION, calls, cfg, nCorrect, round>>

\* award_score found no row and its INSERT fails on uq_game_team: the row was
\* committed meanwhile.  The exception ends the handler.
correct_integrity_error(t) ==
    /\ tasks[t].kind = "correct" /\ tasks[t].pc = "award"
    /\ tasks[t].pscore = NoRow
    /\ writer = None
    /\ ~uq_game_team(score[tasks[t].game], {tasks[t].arg})
    /\ tasks' = Finished(t)
    /\ UNCHANGED <<team_members, team_name, nrows, games, score, teams, writer, State, PENDING_REGISTRATION, calls, cfg, nCorrect, round>>

\* award_score: the INSERT of a missing row and the UPDATE of the score (they
\* take the write lock), participant.score += points computed from the row as
\* it was read; then finish_question: status = running and reset_round.
correct_award(t) ==
    /\ tasks[t].kind = "correct" /\ tasks[t].pc = "award"
    /\ writer = None
    /\ tasks[t].pscore = NoRow => uq_game_team(score[tasks[t].game], {tasks[t].arg})
    /\ writer' = t
    /\ ResetStep(t, tasks[t].game,
                 [tasks[t] EXCEPT !.pc = "commit",
                                  !.adds = IF tasks[t].pscore = NoRow
                                           THEN {tasks[t].arg} ELSE {},
                                  !.pscore = award_score(@, DefaultPoints)])
    /\ UNCHANGED <<team_members, team_name, nrows, games, score, teams, PENDING_REGISTRATION, calls, cfg, nCorrect>>

\* The flush of finish_question, get_scores, session.commit().
correct_commit(t) ==
    /\ tasks[t].kind = "correct" /\ tasks[t].pc = "commit"
    /\ games' = WriteGame(games, t)
    /\ score' = [score EXCEPT ![tasks[t].game][tasks[t].arg] = tasks[t].pscore]
    /\ nrows' = Inserted(nrows, tasks[t].game, tasks[t].adds)
    /\ writer' = None
    /\ tasks' = [tasks EXCEPT ![t] =
          [Answer(t, "awarded") EXCEPT
              !.scores = get_scores(score'[tasks[t].game], teams, team_name)]]
    /\ round' = [round EXCEPT ![tasks[t].game].awarded = @ \cup {tasks[t].arg}]
    /\ UNCHANGED <<team_members, team_name, teams, State, PENDING_REGISTRATION, calls, cfg, nCorrect>>

\* ------------------------------------------------------------- on_admin_wrong
on_admin_wrong(t, u) ==
    /\ AdminSlot(t)
    /\ tasks' = [tasks EXCEPT ![t] = AdminTask("wrong", u, None)]
    /\ UNCHANGED <<team_members, team_name, nrows, games, score, teams, writer, State, PENDING_REGISTRATION, calls, cfg, nCorrect, round>>

wrong_get_game(t) ==
    /\ tasks[t].kind = "wrong" /\ tasks[t].pc = "get_game"
    /\ LET g == get_active_game(games) IN
       tasks' = [tasks EXCEPT ![t] =
          IF g = None
          THEN Answer(t, "no_game")
          ELSE [@ EXCEPT !.pc = "pop", !.game = g, !.status = games[g].status]]
    /\ UNCHANGED <<team_members, team_name, nrows, games, score, teams, writer, State, PENDING_REGISTRATION, calls, cfg, nCorrect, round>>

\* pop_queue(game); if nothing is left, finish_question: status = running and
\* reset_round.
wrong_pop(t) ==
    /\ tasks[t].kind = "wrong" /\ tasks[t].pc = "pop"
    /\ LET g == tasks[t].game
           r == pop_queue(get_state(State, g)[g].queue)
       IN
       IF r.queue = <<>>
       THEN /\ ResetStep(t, g, [tasks[t] EXCEPT
                                   !.pc = "commit", !.removed = r.removed,
                                   !.after = r.queue,
                                   !.dirty = Changed(tasks[t].status, "running")])
       ELSE PopStep(t, g, r, [tasks[t] EXCEPT !.pc = "commit",
                                              !.removed = r.removed,
                                              !.after = r.queue])
    /\ UNCHANGED <<team_members, team_name, nrows, games, score, teams, writer, PENDING_REGISTRATION, calls, cfg, nCorrect>>

\* The flush of finish_question if it ran, and session.commit().
wrong_commit(t) ==
    /\ tasks[t].kind = "wrong" /\ tasks[t].pc = "commit"
    /\ tasks[t].dirty # {} => writer = None
    /\ games' = WriteGame(games, t)
    /\ tasks' = [tasks EXCEPT ![t] =
                    Answer(t, IF tasks[t].after = <<>> THEN "queue_empty" ELSE "next_team")]
    /\ UNCHANGED <<team_members, team_name, nrows, score, teams, writer, State, PENDING_REGISTRATION, calls, cfg, nCorrect, round>>

\* ------------------------------------------------------- database failures
\* The places of a handler at which the next thing it does is a database
\* statement: a SELECT, a flush or a COMMIT with something to write.
DbStep(t) ==
    /\ tasks[t].pc \notin {"idle", "reply", "reset", "pop"}
    /\ tasks[t].pc \in {"enqueue", "flush"} => tasks[t].adds # {}
    /\ (tasks[t].kind = "press" /\ tasks[t].pc = "commit") => tasks[t].adds # {}
    /\ (tasks[t].kind = "wrong" /\ tasks[t].pc = "commit") =>
            /\ tasks[t].after = <<>>
            /\ tasks[t].dirty # {} \/ tasks[t].removed # None

\* The statement raises: the exception leaves the "async with SessionLocal()"
\* block, which rolls the session back and closes it, and ends the handler.
\* Nothing the session wrote is committed; State is not part of the session.
db_failure(t) ==
    /\ DbStep(t)
    /\ writer' = IF writer = t THEN None ELSE writer
    /\ tasks' = Finished(t)
    /\ UNCHANGED <<team_members, team_name, nrows, games, score, teams, State, PENDING_REGISTRATION, calls, cfg, nCorrect, round>>

\* ----------------------------------------------------- registration_state
\* request_name: PENDING_REGISTRATION[user_id] = True.
request_name_only(P, u) == [x \in {u} |-> TRUE]

request_name(P, u) == [x \in DOMAIN P \cup {u} |-> IF x = u THEN TRUE ELSE P[x]]

\* is_pending: PENDING_REGISTRATION.get(user_id, False).
is_pending(P, u) == IF u \in DOMAIN P THEN P[u] ELSE FALSE

\* clear: PENDING_REGISTRATION.pop(user_id, None).
clear(P, u) == [x \in DOMAIN P \ {u} |-> P[x]]

\* on_player_register: the registration button of user u; the handler marks
\* the user and answers.
on_player_register(u) ==
    /\ Len(calls) < MaxCalls
    /\ PENDING_REGISTRATION' = request_name(PENDING_REGISTRATION, u)
    /\ calls' = Append(calls, <<"request_name", u>>)
    /\ UNCHANGED <<team_members, team_name, nrows, games, score, teams, writer, State, tasks, cfg, nCorrect, round>>

\* A call of clear(u).
call_clear(u) ==
    /\ Len(calls) < MaxCalls
    /\ PENDING_REGISTRATION' = clear(PENDING_REGISTRATION, u)
    /\ calls' = Append(calls, <<"clear", u>>)
    /\ UNCHANGED <<team_members, team_name, nrows, games, score, teams, writer, State, tasks, cfg, nCorrect, round>>

\* ------------------------------------------------------- handlers/commands
\* The names the module quizbot.services.game_service binds: what it imports
\* and what it defines.
game_service_names ==
    {"annotations", "dataclass", "UTC", "datetime", "Iterable", "List",
     "Sequence", "func", "select", "AsyncSession", "Game", "GameParticipant",
     "Player", "Team", "TeamMember", "get_state", "reset_round_state",
     "BuzzerResult", "get_or_create_player", "get_player_team",
     "register_team", "get_all_players", "get_players_without_team",
     "get_team_members", "get_active_game", "create_game",
     "ensure_participants", "start_game", "start_question",
     "finish_question", "finish_game", "press_buzzer", "pop_queue",
     "current_queue", "award_score", "get_scores", "teams_by_ids"}

\* from quizbot.services.game_service import get_order, pop_next, reset_round
commands_imports == {"get_order", "pop_next", "reset_round"}

\* The import of quizbot.handlers.commands succeeds only if every name it
\* asks of game_service is bound there; otherwise it raises ImportError and
\* none of its handlers exists.
commands_loaded == commands_imports \subseteq game_service_names

\* A /finish_game message arrives.
on_cmd_finish(t, u) ==
    /\ AdminSlot(t)
    /\ tasks' = [tasks EXCEPT ![t] =
          [Idle EXCEPT !.kind = "cmd_finish", !.pc = "dispatch", !.user = u]]
    /\ UNCHANGED <<team_members, team_name, nrows, games, score, teams, writer, State, PENDING_REGISTRATION, calls, cfg, nCorrect, round>>

\* cmd_finish cannot be reached: the module that defines it does not load.
cmd_finish(t) ==
    /\ tasks[t].kind = "cmd_finish" /\ tasks[t].pc = "dispatch"
    /\ ~commands_loaded
    /\ tasks' = [tasks EXCEPT ![t] = Answer(t, "import_error")]
    /\ UNCHANGED <<team_members, team_name, nrows, games, score, teams, writer, State, PENDING_REGISTRATION, calls, cfg, nCorrect, round>>

\* ------------------------------------------------------------ specification
\* The steps of the handler of a press.
PressSteps ==
    \/ \E t \in Tasks, p \in Players : on_player_buzzer(t, p)
    \/ \E t \in Tasks : buzzer_get_game(t)
    \/ \E t \in Tasks : buzzer_ensure(t)
    \/ \E t \in Tasks : buzzer_enqueue(t)
    \/ \E t \in Tasks : buzzer_commit(t)

\* Registration, the steps of the handlers of admin events, and the end of a
\* handler.
AdminSteps ==
    \/ \E p \in Players : register_team(p)
    \/ \E t \in Tasks : reply(t)
    \/ \E t \in Tasks, u \in Senders : on_admin_start_game(t, u)
    \/ \E t \in Tasks : start_game_get_game(t)
    \/ \E t \in Tasks : create_game(t)
    \/ \E t \in Tasks : start_game_ensure(t)
    \/ \E t \in Tasks : start_game_flush(t)
    \/ \E t \in Tasks : start_game_commit(t)
    \/ \E t \in Tasks, u \in Senders : on_admin_start_question(t, u)
    \/ \E t \in Tasks : start_question_get_game(t)
    \/ \E t \in Tasks : start_question(t)
    \/ \E t \in Tasks : start_question_commit(t)
    \/ \E t \in Tasks, u \in Senders : on_admin_finish_game(t, u)
    \/ \E t \in Tasks : finish_game_get_game(t)
    \/ \E t \in Tasks : finish_game(t)
    \/ \E t \in Tasks : finish_game_commit(t)
    \/ \E t \in Tasks, u \in Senders : on_admin_show_scores(t, u)
    \/ \E t \in Tasks : show_scores_get_game(t)
    \/ \E t \in Tasks : show_scores(t)
    \/ \E t \in Tasks, u \in Senders, x \in Players : on_admin_correct(t, u, x)
    \/ \E t \in Tasks : correct_get_game(t)
    \/ \E t \in Tasks : correct_pop(t)
    \/ \E t \in Tasks : correct_select(t)
    \/ \E t \in Tasks : correct_award(t)
    \/ \E t \in Tasks : correct_commit(t)
    \/ \E t \in Tasks, u \in Senders : on_admin_wrong(t, u)
    \/ \E t \in Tasks : wrong_get_game(t)
    \/ \E t \in Tasks : wrong_pop(t)
    \/ \E t \in Tasks : wrong_commit(t)

\* The steps every run has.
Steps == PressSteps \/ AdminSteps

\* The steps only overlapping handlers can take: a flush that meets a row
\* another session committed after this one looked for it.
AdminConflicts ==
    \/ \E t \in Tasks : start_game_integrity_error(t)
    \/ \E t \in Tasks : correct_integrity_error(t)

Conflicts == (\E t \in Tasks : buzzer_integrity_error(t)) \/ AdminConflicts

Next == Steps \/ Conflicts

Spec == Init /\ [][Next]_vars

SeqNext == Steps

SeqSpec == SeqInit /\ [][SeqNext]_vars

\* One handler at a time, and any database statement may fail.
FailNext == Steps \/ \E t \in Tasks : db_failure(t)

FailSpec == FailInit /\ [][FailNext]_vars

\* Registrations only, two calls of register_team at a time.
RegNext ==
    \/ \E t \in Tasks, p \in Players, name \in RegNames : on_register(t, p, name)
    \/ \E t \in Tasks : register_get_team(t)
    \/ \E t \in Tasks : register_check_name(t)
    \/ \E t \in Tasks : register_insert(t)
    \/ \E t \in Tasks : register_integrity_error(t)
    \/ \E t \in Tasks : register_commit(t)
    \/ \E t \in Tasks : reply(t)

RegSpec == RegInit /\ [][RegNext]_vars

\* Admin events only, two handlers at a time: no press is received.
AdminNext == AdminSteps \/ AdminConflicts

AdminSpec == AdminInit /\ [][AdminNext]_vars

\* Start-game and finish-game events only, two handlers at a time.
StartNext ==
    \/ \E p \in Players : register_team(p)
    \/ \E t \in Tasks : reply(t)
    \/ \E t \in Tasks, u \in Senders : on_admin_start_game(t, u)
    \/ \E t \in Tasks : start_game_get_game(t)
    \/ \E t \in Tasks : create_game(t)
    \/ \E t \in Tasks : start_game_ensure(t)
    \/ \E t \in Tasks : start_game_flush(t)
    \/ \E t \in Tasks : start_game_commit(t)
    \/ \E t \in Tasks : start_game_integrity_error(t)
    \/ \E t \in Tasks, u \in Senders : on_admin_finish_game(t, u)
    \/ \E t \in Tasks : finish_game_get_game(t)
    \/ \E t \in Tasks : finish_game(t)
    \/ \E t \in Tasks : finish_game_commit(t)

StartSpec == StartInit /\ [][StartNext]_vars

\* The calls of registration_state only.
PendNext ==
    \/ \E u \in Players : on_player_register(u)
    \/ \E u \in Players : call_clear(u)

PendSpec == PendInit /\ [][PendNext]_vars

\* One handler at a time, the /finish_game command among the events.
CmdNext ==
    \/ Steps
    \/ \E t \in Tasks, u \in Senders : on_cmd_finish(t, u)
    \/ \E t \in Tasks : cmd_finish(t)

CmdSpec == CmdInit /\ [][CmdNext]_vars

\* Every step handler t can take once its event has arrived.
HandlerStep(t) ==
    \/ buzzer_get_game(t) \/ buzzer_ensure(t) \/ buzzer_enqueue(t)
    \/ buzzer_commit(t) \/ buzzer_integrity_error(t)
    \/ start_game_get_game(t) \/ create_game(t) \/ start_game_ensure(t)
    \/ start_game_flush(t) \/ start_game_commit(t)
    \/ start_game_integrity_error(t)
    \/ start_question_get_game(t) \/ start_question(t)
    \/ start_question_commit(t)
    \/ finish_game_get_game(t) \/ finish_game(t) \/ finish_game_commit(t)
    \/ show_scores_get_game(t) \/ show_scores(t)
    \/ correct_get_game(t) \/ correct_pop(t) \/ correct_select(t)
    \/ correct_award(t) \/ correct_commit(t) \/ correct_integrity_error(t)
    \/ wrong_get_game(t) \/ wrong_pop(t) \/ wrong_commit(t)
    \/ reply(t)

\* Two handlers at a time on the event loop: a coroutine that is ready to run
\* is run (the loop's ready queue is first in, first out), events arrive or
\* not as the users please.
LiveSpec == LiveInit /\ [][Next]_vars /\ \A t \in Tasks : WF_vars(HandlerStep(t))

\* ------------------------------------------------------------------ claims
PressTasks == {t \in Tasks : tasks[t].kind = "press"}

Granted(g) == round[g].given

\* The step in which handler t ends with an exception.
Raises(t) == tasks[t].pc \notin {"idle", "reply"} /\ tasks'[t].kind = "idle"

\* The step in which handler t leaves the place pc of its code.
Leaves(t, kind, pc) ==
    tasks[t].kind = kind /\ tasks[t].pc = pc /\ tasks'[t].pc # pc

\* C1: exactly-once-first.  Among the presses of distinct teams that were
\* newly queued for one question of one game (before the admin pops anything),
\* in any interleaving of their handlers, the i-th team queued was given
\* position i: exactly one team was given position 1, and the positions given
\* are 1..n without a repeat or a gap.
C1_ExactlyOnceFirst ==
    \A g \in GameIds :
        /\ \A i \in 1..Len(Granted(g)) : Granted(g)[i][2] = i
        /\ \A i, j \in 1..Len(Granted(g)) :
               i # j => Granted(g)[i][1] # Granted(g)[j][1]
        /\ Granted(g) # <<>> =>
               Cardinality({i \in 1..Len(Granted(g)) : Granted(g)[i][2] = 1}) = 1

\* Two press handlers of distinct teams overlap and both were queued.
C1_Witness ==
    /\ \A t \in Tasks : /\ tasks[t].kind = "press" /\ tasks[t].pc = "commit"
                        /\ tasks[t].msg \in {"first", "queued"}
    /\ tasks[1].team # tasks[2].team
    /\ {tasks[1].position, tasks[2].position} = {1, 2}

\* C2: in every reachable state the queue of a game holds no team id twice.
C2_NoDuplicates ==
    \A g \in DOMAIN State :
        \A i, j \in 1..Len(State[g].queue) :
            i # j => State[g].queue[i] # State[g].queue[j]

\* A team that is queued pressed again, after a pop, with another team queued.
C2_Witness ==
    \E t \in PressTasks :
        /\ tasks[t].msg = "already"
        /\ round[tasks[t].game].popped
        /\ Len(current_queue(State, tasks[t].game)) = 2

\* C3: buzz-in order matches arrival order.  When a press handler appends its
\* team, no team still queued was appended by a handler that started after it
\* (for the same game and question).
C3_ArrivalOrder ==
    \A t \in PressTasks :
        tasks[t].msg \in {"first", "queued"} => tasks[t].overtaken = {}

\* C4: sequential presses by distinct teams during one question, nothing
\* popped: current_queue returns the teams in call order and the k-th call
\* returned position k.
C4_SequentialOrder ==
    \A g \in GameIds :
        ~round[g].popped =>
            /\ Len(current_queue(State, g)) = Len(Granted(g))
            /\ \A k \in 1..Len(Granted(g)) :
                  /\ current_queue(State, g)[k] = Granted(g)[k][1]
                  /\ Granted(g)[k][2] = k

\* Three teams pressed one after the other.
C4_Witness ==
    \E g \in DOMAIN State :
        /\ Len(State[g].queue) = 3
        /\ Len(Granted(g)) = 3
        /\ \E t \in PressTasks : tasks[t].pc = "reply" /\ tasks[t].position = 3

\* C5: press_buzzer is idempotent per team.  A press by a team that was queued
\* earlier in the question, with no pop or reset since, returns the position
\* its first press returned and leaves the queue as it is.
C5_Idempotent ==
    [][\A t \in Tasks :
          (Leaves(t, "press", "enqueue") /\ tasks'[t].pc = "commit")
          => LET g == tasks[t].game IN
             \A i \in 1..Len(Granted(g)) :
                (~round[g].popped /\ Granted(g)[i][1] = tasks[t].team)
                => /\ tasks'[t].position = Granted(g)[i][2]
                   /\ tasks'[t].msg = "already"
                   /\ current_queue(State', g) = current_queue(State, g)]_vars

\* The second team of a queue of two pressed again.
C5_Witness ==
    \E t \in PressTasks :
        /\ tasks[t].msg = "already"
        /\ tasks[t].position = 2
        /\ ~round[tasks[t].game].popped
        /\ Len(Granted(tasks[t].game)) = 2

\* C6: the first-notification (result with position 1 and a team) is sent only
\* for a press that appended its team to an empty queue, never for a press of
\* a team that was already queued.
C6_FirstOnlyWhenNew ==
    \A t \in PressTasks :
        (tasks[t].pc = "reply" /\ FirstEvent(tasks[t].position, tasks[t].team))
            => tasks[t].msg = "first"

\* C7: a game whose status is not question has an empty queue.
C7_QueueOnlyInQuestion ==
    \A g \in DOMAIN games :
        games[g].status # "question" => current_queue(State, g) = <<>>

\* C8: a press on a game whose status is not question (idle, running or
\* finished) gets the no-active-question result, with position and team none,
\* and no step of its handler changes the queue.
C8_RejectedOutsideQuestion ==
    [][/\ \A st \in {"idle", "running", "finished"} : NoActiveQuestion(st)
       /\ \A t \in Tasks :
            /\ (/\ Leaves(t, "press", "get_game")
                /\ get_active_game(games) # None
                /\ games[get_active_game(games)].status # "question")
               => /\ tasks'[t].msg = "no_question"
                  /\ tasks'[t].position = None /\ tasks'[t].team = None
                  /\ tasks'[t].pc = "reply"
                  /\ State' = State
            /\ (tasks[t].msg = "no_question" /\ tasks'[t] # tasks[t])
               => tasks'[t] = Idle /\ State' = State]_vars

\* A press was rejected on a running game.
C8_Witness ==
    \E t \in PressTasks :
        /\ tasks[t].msg = "no_question"
        /\ tasks[t].status = "running"
        /\ tasks[t].position = None /\ tasks[t].team = None

\* C9: a press during an active question by a player without a team gets the
\* no-team result, with position and team none; no step of its handler
\* changes the queue or a score.
C9_NoTeamRejected ==
    [][\A t \in Tasks :
          /\ (Leaves(t, "press", "ensure") /\ tasks[t].user \notin teams)
             => /\ tasks[t].status = "question"
                /\ tasks'[t].msg = "no_team"
                /\ tasks'[t].position = None /\ tasks'[t].team = None
                /\ tasks'[t].pc = "reply"
                /\ State' = State /\ score' = score
          /\ (tasks[t].msg = "no_team" /\ tasks'[t] # tasks[t])
             => tasks'[t] = Idle /\ State' = State /\ score' = score]_vars

\* A player without a team was turned away while another team was queued.
C9_Witness ==
    \E t \in PressTasks :
        /\ tasks[t].msg = "no_team"
        /\ tasks[t].user \notin teams
        /\ Len(current_queue(State, tasks[t].game)) >= 1

\* C10: a mark-correct event for team T on a game in status question, handled
\* on its own: when its transaction commits, the score of T is one higher
\* (a missing row counts as 0), every other score is unchanged, the queue is
\* empty and the status is running.
C10_CorrectAwardsT ==
    [][\A t \in Tasks :
          (Leaves(t, "correct", "commit") /\ tasks[t].status = "question")
          => LET g == tasks[t].game
                 T == tasks[t].arg
             IN /\ score'[g][T] =
                      (IF score[g][T] = NoRow THEN 0 ELSE score[g][T]) + 1
                /\ \A x \in Players : x # T => score'[g][x] = score[g][x]
                /\ \A h \in GameIds : h # g => score'[h] = score[h]
                /\ current_queue(State', g) = <<>>
                /\ games'[g].status = "running"]_vars

\* The point went to T although the popped head was another team.
C10_Witness ==
    \E t \in Tasks :
        /\ tasks[t].kind = "correct" /\ tasks[t].msg = "awarded"
        /\ tasks[t].status = "question"
        /\ tasks[t].removed \notin {None, tasks[t].arg}
        /\ score[tasks[t].game][tasks[t].arg] = 1
        /\ score[tasks[t].game][tasks[t].removed] = 0
        /\ games[tasks[t].game].status = "running"
        /\ current_queue(State, tasks[t].game) = <<>>

\* C11: a mark-wrong event, handled on its own, removes exactly the head of
\* the queue and changes no score.  If nothing is left the status becomes
\* running and no next team is announced; otherwise the status stays question
\* and the team announced as next is the new head of the queue.
C11_WrongPopsHead ==
    [][\A t \in Tasks :
          /\ Leaves(t, "wrong", "pop") =>
                LET g == tasks[t].game
                    q == current_queue(State, g)
                IN /\ score' = score
                   /\ tasks'[t].removed = (IF q = <<>> THEN None ELSE Head(q))
                   /\ tasks'[t].after = (IF q = <<>> THEN <<>> ELSE Tail(q))
                   /\ current_queue(State', g) = tasks'[t].after
          /\ Leaves(t, "wrong", "commit") =>
                LET g == tasks[t].game IN
                /\ score' = score
                /\ IF tasks[t].after = <<>>
                   THEN /\ games'[g].status = "running"
                        /\ tasks'[t].msg = "queue_empty"
                   ELSE /\ games'[g].status = "question"
                        /\ tasks'[t].msg = "next_team"
                        /\ next_team_id(tasks[t].after) =
                               Head(current_queue(State', g))]_vars

\* The head of a queue of two was marked wrong: the other team is next.
C11_Witness ==
    \E t \in Tasks :
        /\ tasks[t].kind = "wrong" /\ tasks[t].msg = "next_team"
        /\ tasks[t].removed # None
        /\ current_queue(State, tasks[t].game) = tasks[t].after
        /\ Len(tasks[t].after) = 1
        /\ games[tasks[t].game].status = "question"

\* C12: pop_queue on an empty queue returns (none, empty list) and leaves the
\* queue empty; on a non-empty queue it returns the former head and the rest
\* of the queue in unchanged order, which is what the queue then holds.
C12_PopQueue ==
    [][\A t \in Tasks :
          Leaves(t, "correct", "pop") =>
             LET g == tasks[t].game
                 q == current_queue(State, g)
             IN IF q = <<>>
                THEN /\ tasks'[t].removed = None
                     /\ tasks'[t].after = <<>>
                     /\ current_queue(State', g) = <<>>
                ELSE /\ tasks'[t].removed = q[1]
                     /\ tasks'[t].after = [i \in 1..(Len(q) - 1) |-> q[i + 1]]
                     /\ current_queue(State', g) = tasks'[t].after]_vars

\* pop_queue ran on an empty queue while the question was open.
C12_Witness ==
    \E t \in Tasks :
        /\ tasks[t].kind = "correct" /\ tasks[t].pc = "select"
        /\ tasks[t].status = "question"
        /\ tasks[t].removed = None /\ tasks[t].after = <<>>
        /\ \E u \in PressTasks : tasks[u].pc = "enqueue"

\* C13: when start_game, start_question, finish_question or finish_game
\* returns (called by a handler that runs on its own), the queue of the game
\* is empty, whatever it held before the call.
C13_EmptyAfterTransition ==
    [][\A t \in Tasks :
          (\/ Leaves(t, "start_game", "flush") /\ tasks'[t].pc = "commit"
           \/ Leaves(t, "start_question", "commit")
           \/ Leaves(t, "correct", "commit")
           \/ Leaves(t, "wrong", "commit") /\ tasks[t].after = <<>>
           \/ Leaves(t, "finish_game", "commit"))
          => current_queue(State', tasks[t].game) = <<>>]_vars

\* finish_question ran while a team was still queued behind the popped head.
C13_Witness ==
    \E t \in Tasks :
        /\ tasks[t].kind = "correct" /\ tasks[t].msg = "awarded"
        /\ tasks[t].removed # None
        /\ Len(tasks[t].after) >= 1
        /\ current_queue(State, tasks[t].game) = <<>>

\* C14: admin start events respect their source statuses.  A start-game event
\* succeeds only on a game that is idle or finished (or when it creates the
\* game), a start-question event only on a game that is running or in
\* question.
C14_StartRespectsStatus ==
    \A t \in Tasks :
        /\ (tasks[t].kind = "start_game" /\ tasks[t].msg = "started")
              => tasks[t].status \in {"idle", "finished"}
        /\ (tasks[t].kind = "start_question" /\ tasks[t].msg = "question_started")
              => tasks[t].status \in {"running", "question"}

\* C15: finish_game on a game in status question empties the queue and sets
\* the status to finished, and a start-question event that looks for the game
\* after finish_game has committed on it (the game has its completion
\* timestamp) is refused: the game never gets an open question again.
C15_NoQuestionAfterFinish ==
    [][\A t \in Tasks :
          /\ (Leaves(t, "finish_game", "commit") /\ tasks[t].status = "question")
                => /\ games'[tasks[t].game].status = "finished"
                   /\ current_queue(State', tasks[t].game) = <<>>
          /\ (/\ Leaves(t, "start_question", "get_game")
              /\ \E g \in DOMAIN games : games[g].finished_at)
                => tasks'[t].msg = "no_game"]_vars

\* C16: mark-correct and mark-wrong take effect only on a game in status
\* question: on a game in another status they do not succeed.
C16_MarksOnlyInQuestion ==
    \A t \in Tasks :
        /\ (tasks[t].kind = "correct" /\ tasks[t].msg = "awarded")
              => tasks[t].status = "question"
        /\ (tasks[t].kind = "wrong" /\ tasks[t].msg \in {"queue_empty", "next_team"})
              => tasks[t].status = "question"

\* C17: in every reachable state at most one game has a status other than
\* finished, whatever the interleaving of admin start-game events.
C17_OneActiveGame == Cardinality(ActiveIds(games)) <= 1

\* C18: start_game, called by a handler that runs on its own.  Every team
\* known when ensure_participants looks has a Participant row or gets one;
\* when the handler commits, the status is running, the rows start_game
\* created are new and have score 0, and every other score is unchanged.
C18_StartGameParticipants ==
    [][\A t \in Tasks :
          /\ (\/ Leaves(t, "start_game", "create")
              \/ Leaves(t, "start_game", "ensure"))
                => \A x \in teams :
                      \/ x \in tasks'[t].adds
                      \/ score[tasks'[t].game][x] # NoRow
          /\ Leaves(t, "start_game", "commit")
                => LET g == tasks[t].game IN
                   /\ games'[g].status = "running"
                   /\ \A x \in Players :
                         IF x \in tasks[t].adds
                         THEN score[g][x] = NoRow /\ score'[g][x] = 0
                         ELSE score'[g][x] = score[g][x]]_vars

\* start_game is about to commit a new row next to a row that has a point.
C18_Witness ==
    \E t \in Tasks :
        /\ tasks[t].kind = "start_game" /\ tasks[t].pc = "commit"
        /\ tasks[t].adds # {}
        /\ \E x \in teams : score[tasks[t].game][x] >= 1

\* C19: a game has a completion timestamp if and only if its status is
\* finished.
C19_TimestampIffFinished ==
    \A g \in DOMAIN games :
        games[g].finished_at <=> games[g].status = "finished"

\* C20: the point of a mark-correct event and its change of the status from
\* question to running become visible to the other sessions in one step: a
\* committed score rises only in the commit of a mark-correct handler, and if
\* that handler found the game in status question the same commit makes the
\* status running.
C20_AwardCommitsAtomically ==
    [][\A g \in GameIds : \A x \in Players :
          (score'[g][x] # score[g][x] /\ score'[g][x] >= 1)
          => \E t \in Tasks :
                /\ Leaves(t, "correct", "commit")
                /\ tasks[t].game = g /\ tasks[t].arg = x
                /\ tasks[t].status = "question" => games'[g].status = "running"]_vars

\* A mark-correct handler has committed while a press handler, which reads
\* the game in a session of its own, is in flight.
C20_Witness ==
    \E t \in Tasks :
        /\ tasks[t].kind = "correct" /\ tasks[t].msg = "awarded"
        /\ tasks[t].status = "question"
        /\ score[tasks[t].game][tasks[t].arg] = 1
        /\ games[tasks[t].game].status = "running"
        /\ \E u \in PressTasks : tasks[u].pc = "get_game"

\* C21: a handler that ends because a database statement failed leaves no
\* partial state: the queue of every game, the games and the scores are what
\* they were when the handler started.
C21_NoPartialState ==
    [][\A t \in Tasks :
          Raises(t) =>
             /\ \A g \in GameIds :
                   current_queue(State', g) = current_queue(tasks[t].before.State, g)
             /\ games' = tasks[t].before.games
             /\ score' = tasks[t].before.score]_vars

\* C22: a redundant mark-correct is a no-op.  A mark-correct event for a team
\* that was given a point since the last start-question changes no score and
\* no game row when it commits, and it has removed no team from the queue.
C22_SecondCorrectNoOp ==
    [][\A t \in Tasks :
          (/\ Leaves(t, "correct", "commit")
           /\ tasks[t].arg \in round[tasks[t].game].awarded)
          => /\ score' = score
             /\ games' = games
             /\ tasks[t].removed = None
             /\ current_queue(State', tasks[t].game) = tasks[t].after]_vars

\* The kinds of admin events.
AdminKinds ==
    {"start_game", "start_question", "finish_game", "show_scores", "correct", "wrong"}

\* C23: an admin event (start-game, start-question, finish-game, show-scores,
\* mark-correct, mark-wrong) sent by a user who is not on the allow-list gets
\* the not-authorized answer, and no step of its handler changes a game row
\* (status, owner), a queue or a score.
C23_NotAuthorized ==
    [][\A t \in Tasks :
          /\ (/\ tasks[t].kind = "idle" /\ tasks'[t].kind \in AdminKinds
              /\ tasks'[t].user \notin default_admin_ids)
             => /\ tasks'[t].msg = "not_authorized" /\ tasks'[t].pc = "reply"
                /\ games' = games /\ State' = State /\ score' = score
          /\ (/\ tasks[t].kind \in AdminKinds
              /\ tasks[t].user \notin default_admin_ids
              /\ tasks'[t] # tasks[t])
             => /\ tasks'[t] = Idle
                /\ games' = games /\ State' = State /\ score' = score]_vars

\* A player's mark-correct was turned away while a question was open and a
\* team was queued.
C23_Witness ==
    \E t \in Tasks :
        /\ tasks[t].kind = "correct" /\ tasks[t].msg = "not_authorized"
        /\ tasks[t].user \in Players
        /\ \E g \in DOMAIN games :
              /\ games[g].status = "question"
              /\ current_queue(State, g) # <<>>

\* C24: in every reachable state each player belongs to at most one team; a
\* register_team call for a player who has a membership fails with the
\* already-on-a-team error, and no team and no membership is created for a
\* player who has one.
C24_OneTeamPerPlayer ==
    /\ [](\A p \in Players : Cardinality({m \in team_members : m[2] = p}) <= 1)
    /\ [][/\ \A t \in Tasks :
               (/\ Leaves(t, "register", "get_team")
                /\ \E m \in team_members : m[2] = tasks[t].user)
               => /\ tasks'[t].msg = "already_on_team" /\ tasks'[t].pc = "reply"
                  /\ teams' = teams /\ team_members' = team_members
          /\ (teams' # teams \/ team_members' # team_members)
               => \E t \in Tasks :
                     /\ Leaves(t, "register", "commit")
                     /\ ~\E m \in team_members : m[2] = tasks[t].user
                     /\ Cardinality(teams') = Cardinality(teams) + 1
                     /\ Cardinality(team_members') = Cardinality(team_members) + 1]_vars

\* A player with a team asked for a second one and was refused, after both
\* players had registered.
C24_Witness ==
    /\ \E t \in Tasks : tasks[t].kind = "register" /\ tasks[t].msg = "already_on_team"
    /\ Cardinality(teams) = 2

\* C25: no two teams have names that are equal under case-insensitive
\* comparison, after any sequence or interleaving of register_team calls.
C25_NamesUniqueIgnoringCase ==
    \A x, y \in teams : x # y => py_lower(team_name[x]) # py_lower(team_name[y])

ScoresOK(rows, table) ==
    /\ Len(table) = Cardinality({x \in DOMAIN rows : rows[x] # NoRow})
    /\ \A x \in DOMAIN rows :
          rows[x] # NoRow =>
             Cardinality({i \in 1..Len(table) : table[i] = <<team_name[x], rows[x]>>}) = 1
    /\ \A i, j \in 1..Len(table) :
          i < j => \/ table[i][2] > table[j][2]
                   \/ table[i][2] = table[j][2] /\ NameLess(table[i][1], table[j][1])

C27_GetScores ==
    [][\A t \in Tasks :
          /\ Leaves(t, "show_scores", "scores") =>
                ScoresOK(score[tasks[t].game], tasks'[t].scores)
          /\ Leaves(t, "finish_game", "commit") =>
                ScoresOK(score[tasks[t].game], tasks'[t].scores)
          /\ Leaves(t, "correct", "commit") =>
                ScoresOK(score'[tasks[t].game], tasks'[t].scores)]_vars

\* The table of three teams with scores 1, 0, 1 was shown: the two teams
\* with a point come first, in the order of their names.
C27_Witness ==
    \E t \in Tasks :
        /\ tasks[t].kind = "show_scores" /\ tasks[t].msg = "scores_shown"
        /\ Len(tasks[t].scores) = 3
        /\ tasks[t].scores[1][2] = 1 /\ tasks[t].scores[2][2] = 1
        /\ tasks[t].scores[3][2] = 0
        /\ score[tasks[t].game][2] = 0

\* C28: every Participant score is an integer greater than or equal to 0, and
\* no event ever lowers a score.
C28_ScoresNeverDrop ==
    /\ [](\A g \in GameIds : \A x \in Players :
             score[g][x] # NoRow => score[g][x] \in Nat)
    /\ [][\A g \in GameIds : \A x \in Players :
             score[g][x] # NoRow => score'[g][x] # NoRow /\ score'[g][x] >= score[g][x]]_vars

\* C29: in every reachable state there is at most one Participant row per
\* (game, team) pair, whatever the interleaving of start_game, press_buzzer
\* (ensure_participants) and award_score in their sessions; the pair has a
\* score exactly if it has a row.
C29_OneRowPerPair ==
    \A g \in GameIds : \A x \in Players :
        /\ nrows[g][x] <= 1
        /\ nrows[g][x] = 1 <=> score[g][x] # NoRow

\* A press handler is about to insert a row for a pair whose row another
\* session has committed since the handler looked.
C29_Witness ==
    \E t \in PressTasks :
        /\ tasks[t].pc = "enqueue" /\ tasks[t].adds # {}
        /\ \E x \in tasks[t].adds : nrows[tasks[t].game][x] = 1

\* Handler t stands before a queue operation that waits for nothing but the
\* lock of its game: the critical section of press_buzzer when no row is to
\* be flushed before it, pop_queue, reset_round.
QueueOp(t) ==
    \/ tasks[t].kind = "press" /\ tasks[t].pc = "enqueue" /\ tasks[t].adds = {}
    \/ tasks[t].kind \in {"correct", "wrong"} /\ tasks[t].pc = "pop"
    \/ tasks[t].kind \in {"start_question", "finish_game"} /\ tasks[t].pc = "reset"
    \/ /\ tasks[t].kind = "start_game" /\ tasks[t].pc = "flush"
       /\ tasks[t].adds = {} \/ writer = t

\* No handler is ever suspended while it holds the lock of a game.
NoLockHeld == \A g \in DOMAIN State : ~State[g].lock

\* While a handler is under way, some handler under way can take a step.
NoDeadlock == InFlight # {} => \E t \in InFlight : ENABLED HandlerStep(t)

\* C30: no queue operation blocks for ever: where the coroutines that are
\* ready to run are run, a handler that has come to a queue operation
\* (press_buzzer's critical section, pop_queue, reset_round) gets the lock of
\* its game, completes the operation and leaves the lock free, and no
\* reachable state is a deadlock.
C30_QueueOpsComplete ==
    /\ []NoLockHeld
    /\ []NoDeadlock
    /\ \A t \in Tasks : QueueOp(t) ~> ~QueueOp(t)

\* Two handlers stand before a queue operation on the same game at once, and
\* an earlier operation has left teams in its queue.
C30_Witness ==
    \E t, u \in Tasks :
        /\ t # u /\ QueueOp(t) /\ QueueOp(u)
        /\ tasks[t].game = tasks[u].game
        /\ tasks[t].game \in DOMAIN State
        /\ State[tasks[t].game].queue # <<>>

\* C31: no read or write of the durable store is made while the lock of a
\* game is held: whenever a handler stands at a database statement, the
\* lock of every game is free (the lookups and ensure_participants of
\* press_buzzer are over before the lock is taken, and pop_queue and
\* reset_round leave the lock before the next statement).
C31_NoStoreAccessUnderLock ==
    \A t \in Tasks : DbStep(t) => \A g \in DOMAIN State : ~State[g].lock

\* A handler stands at a database statement just after another handler's
\* critical section has put a team into the queue, and a press stands at
\* the flush that precedes its own critical section.
C31_Witness ==
    \E t, u \in Tasks :
        /\ t # u /\ DbStep(t)
        /\ tasks[t].kind = "press" /\ tasks[t].pc = "enqueue"
        /\ tasks[u].kind = "press" /\ tasks[u].pc = "commit"
        /\ tasks[u].game \in DOMAIN State
        /\ State[tasks[u].game].queue # <<>>

\* C32: after the /finish_game command of an authorized user the game is
\* finished and its queue-state entry is gone from STATE.
C32_FinishEvicts ==
    \A t \in Tasks :
        (/\ tasks[t].kind = "cmd_finish" /\ tasks[t].pc = "reply"
         /\ _is_admin(tasks[t].user))
        => /\ get_active_game(games) = None
           /\ \A g \in DOMAIN games : g \notin DOMAIN State

\* The last call made for user u, "none" if there was none.
RECURSIVE LastCall(_, _)
LastCall(cs, u) ==
    IF cs = <<>> THEN "none"
    ELSE IF cs[Len(cs)][2] = u THEN cs[Len(cs)][1]
    ELSE LastCall(SubSeq(cs, 1, Len(cs) - 1), u)

\* C33: is_pending(u) is true exactly if request_name(u) was called and
\* clear(u) was not called after it, and calls for another user never change
\* is_pending(u).
C33_PendingFlag ==
    /\ [](\A u \in Players :
            is_pending(PENDING_REGISTRATION, u) <=>
                \E i \in 1..Len(calls) :
                    /\ calls[i] = <<"request_name", u>>
                    /\ \A j \in (i + 1)..Len(calls) : calls[j] # <<"clear", u>>)
    /\ [][\A u \in Players :
            (Len(calls') = Len(calls) + 1 /\ calls'[Len(calls')][2] # u)
            => is_pending(PENDING_REGISTRATION', u) = is_pending(PENDING_REGISTRATION, u)]_vars

\* One user asked, cleared and asked again while another user is pending.
C33_Witness ==
    \E u, v \in Players :
        /\ u # v
        /\ Len(calls) = MaxCalls
        /\ LastCall(calls, u) = "request_name"
        /\ \E i \in 1..Len(calls) : calls[i] = <<"clear", u>>
        /\ is_pending(PENDING_REGISTRATION, u)
        /\ is_pending(PENDING_REGISTRATION, v)

\* C34: FIFO stability.  Across every step, two teams that are in the queue
\* of a game before and after it keep their order, and a team that leaves
\* the queue was its head and the rest is untouched (pop_queue), or the whole
\* queue was emptied (reset_round): no team is skipped or taken from the
\* middle.
C34_FifoStable ==
    [][\A g \in DOMAIN State' :
          LET q == current_queue(State, g)
              r == State'[g].queue
          IN /\ \A x, y \in Players :
                   (InQueue(q, x) /\ InQueue(q, y) /\ InQueue(r, x) /\ InQueue(r, y)
                    /\ IndexOf(q, x) < IndexOf(q, y))
                   => IndexOf(r, x) < IndexOf(r, y)
             /\ \A x \in Players :
                   (InQueue(q, x) /\ ~InQueue(r, x))
                   => \/ x = Head(q) /\ r = Tail(q)
                      \/ r = <<>>]_vars

\* The head of a queue of three was popped and the other two are queued in
\* the order in which they pressed.
C34_Witness ==
    \E t \in Tasks :
        /\ tasks[t].kind = "wrong" /\ tasks[t].pc = "commit"
        /\ tasks[t].removed # None
        /\ Len(tasks[t].after) = 2
        /\ current_queue(State, tasks[t].game) = tasks[t].after
        /\ Len(Granted(tasks[t].game)) = 3
        /\ \A i \in 1..2 : tasks[t].after[i] = Granted(tasks[t].game)[i + 1][1]

\* The events that are not a mark-correct.
OtherKinds ==
    {"press", "wrong", "start_game", "start_question", "finish_game", "show_scores"}

\* C35: scores change only through mark-correct.  No step of the handler of
\* a press, mark-wrong, start-game, start-question, finish-game or
\* show-scores event changes the score of a Participant row that exists; the
\* rows such a step adds have score 0.
C35_ScoresOnlyByCorrect ==
    [][\A t \in Tasks :
          (tasks[t].kind \in OtherKinds /\ tasks'[t].pc # tasks[t].pc)
          => \A g \in GameIds : \A x \in Players :
                /\ score[g][x] # NoRow => score'[g][x] = score[g][x]
                /\ score[g][x] = NoRow => score'[g][x] \in {NoRow, InitialScore}]_vars

\* A press has queued a team whose row stands at score 0 while another team
\* of the game has a point.
C35_Witness ==
    \E t \in PressTasks :
        /\ tasks[t].pc = "reply" /\ tasks[t].msg \in {"first", "queued"}
        /\ \E x, y \in Players :
              /\ x # y /\ x = tasks[t].team
              /\ score[tasks[t].game][x] = InitialScore
              /\ nrows[tasks[t].game][x] = 1
              /\ score[tasks[t].game][y] > InitialScore

\* C36: once a game has status finished, no step of a handler changes its
\* status, its owner or any of its scores.
C36_FinishedIsFrozen ==
    [][\A g \in DOMAIN games :
          games[g].status = "finished"
          => /\ games'[g].status = "finished"
             /\ games'[g].owner = games[g].owner
             /\ score'[g] = score[g]]_vars

\* C37: no lost update on scores.  Every mark-correct event that commits
\* raises the committed score of its team by exactly 1 (a missing row counts
\* as 0) and leaves the other scores of the game alone, so that the sum of
\* the scores of a game is the number of mark-correct events committed on it.
C37_NoLostUpdate ==
    [][\A t \in Tasks :
          Leaves(t, "correct", "commit")
          => LET g == tasks[t].game
                 x == tasks[t].arg
                 old == IF score[g][x] = NoRow THEN InitialScore ELSE score[g][x]
             IN /\ score'[g][x] = old + DefaultPoints
                /\ \A y \in Players \ {x} : score'[g][y] = score[g][y]]_vars

C39_RemovedTeamRequeues ==
    [][\A t, u \in Tasks :
          (/\ Leaves(t, "press", "enqueue") /\ tasks'[t].pc = "commit"
           /\ tasks[u].kind = "wrong" /\ tasks[u].pc = "reply"
           /\ tasks[u].msg = "next_team"
           /\ tasks[u].removed = tasks[t].team
           /\ tasks[u].game = tasks[t].game
           /\ current_queue(State, tasks[t].game) = tasks[u].after)
          => /\ current_queue(State', tasks[t].game) =
                    Append(tasks[u].after, tasks[t].team)
             /\ tasks'[t].position = Len(tasks[u].after) + 1
             /\ tasks'[t].msg = "queued"]_vars

\* The team that mark-wrong removed has pressed again and stands second,
\* behind the team that was next.
C39_Witness ==
    \E t, u \in Tasks :
        /\ tasks[t].kind = "press" /\ tasks[t].pc = "commit"
        /\ tasks[t].msg = "queued" /\ tasks[t].position = 2
        /\ tasks[u].kind = "wrong" /\ tasks[u].pc = "reply"
        /\ tasks[u].removed = tasks[t].team
        /\ Len(tasks[u].after) = 1
        /\ current_queue(State, tasks[t].game) = Append(tasks[u].after, tasks[t].team)

=============================================================================
